---- MODULE Spec2Model ----
(***************************************************************************)
(* RouterOS API client (src/src/controller.ts): the SocketBuffer byte      *)
(* stream, the word/sentence codec and the RouterOSClient session (login,  *)
(* sendCommand) driven by socket events.                                   *)
(*                                                                         *)
(* Specifications:                                                         *)
(*   SpecBuf   - one SocketBuffer driven by arbitrary feed / end / fail /  *)
(*               readExact calls;                                          *)
(*   Spec      - one RouterOSClient on one socket, a protocol-abiding      *)
(*               peer, and a caller that logs in and then sends commands;  *)
(*   SpecQuery - RouterAPI.query, each call on the connection it opens;    *)
(*   SpecQueues - RouterAPI.setQueue, one call or two at a time;           *)
(*   SpecParse - the parsing of one received sentence into a reply;        *)
(*   SpecDecode - decodeLength applied to every first byte;                *)
(*   SpecCodec - the length codec applied to lengths around the limits of  *)
(*               its ranges;                                               *)
(*   SpecEcho  - one RouterOSClient whose peer echoes its command;         *)
(*   SpecCalls - one RouterOSClient whose caller calls sendCommand and     *)
(*               close() in any state, and whose peer may break framing.   *)
(***************************************************************************)
EXTENDS Integers, Sequences, FiniteSets, TLC

VARIABLES
    buffer,     \* SocketBuffer: queue, totalLength, waiters, closed, error
    reads,      \* SpecBuf: every readExact call so far: size, status, data, err
    completed,  \* SpecBuf: ids of the readExact calls in the order they completed
    fedBytes,   \* SpecBuf: concatenation of every chunk passed to feed
    nFeeds,     \* SpecBuf: number of feed calls so far
    sock,       \* Spec: the socket: open, halfClosed (ended by close()), and as
                \* its events have shown it: ended, errored, closed
    wire,       \* Spec: the bytes the client has written to the socket
    net,        \* Spec: the bytes the peer has sent that no data event has delivered yet
    peerSent,   \* Spec: the sentences the peer has sent, each with the command it answers
    gens,       \* Spec: the live sendCommand generators, the running one last
    rd,         \* Spec: the readExact promise the running generator awaits
    login,      \* Spec: the login call: active, result, err
    caller,     \* Spec: the caller of login and sendCommand
    rxLog,      \* Spec: the sentences receiveSentence has returned
    yields,     \* Spec: the replies yielded: generator, sentence number, reply
    cmds,       \* Spec: the sendCommand calls: words, status, whether login made it,
                \* whether the session was ready, the bytes written before it
    errInFlight, \* Spec: the socket error emitted while a read was pending, if any
    codec,      \* SpecCodec: the value in hand, what was made of it, the step reached
    router,     \* SpecQueues: the router's simple queues, in the order of /print
    api         \* SpecQueues: the setQueue calls: where each stands, what it has read

driverVars == <<reads, completed, fedBytes, nFeeds>>
sessionVars == <<sock, wire, net, peerSent, gens, rd, login, caller, rxLog, yields,
                 cmds, errInFlight>>
apiVars == <<router, api>>
vars == <<buffer, driverVars, sessionVars, codec, apiVars>>

-----------------------------------------------------------------------------
(* Bounds of the SocketBuffer driver.                                      *)

\* longest chunk passed to feed
MaxChunk == 2
\* number of feed and readExact calls together
MaxCalls == 4
\* number of sentences the peer sends on one connection
MaxSentences == 3
\* number of sendCommand calls the caller makes on one session
MaxCommands == 1
\* number of chunks the transport delivers ahead of the client's reads
MaxAhead == 1
\* largest size passed to readExact: one more than any single chunk holds
MaxSize == MaxChunk + 1

Min(a, b) == IF a < b THEN a ELSE b

\* The i-th byte the transport delivers: 0x01, 0x41, 0x02, 0x42, ... (all
\* different, so that a byte out of place shows; SocketBuffer never looks at
\* the value of a byte).
StreamByte(i) == IF i % 2 = 1 THEN (i + 1) \div 2 ELSE 64 + (i \div 2)

\* the chunk of n bytes that follows the first k bytes of the stream
Chunk(k, n) == [i \in 1..n |-> StreamByte(k + i)]

-----------------------------------------------------------------------------
(* Errors.                                                                 *)

Null == "null"
ErrClosed == "connection closed by remote end"
ErrPrefix == "invalid length prefix"
ErrRange == "ERR_OUT_OF_RANGE"
ErrWrite == "write failed"
ErrLogin == "Failed to login"
SockErrors == {"ECONNRESET", "ETIMEDOUT"}
\* the error the session's socket emits
SessionErrors == {"ECONNRESET"}

-----------------------------------------------------------------------------
(* SocketBuffer.                                                           *)

\* new SocketBuffer(): the field initialisers
NewSocketBuffer ==
    [queue |-> <<>>, totalLength |-> 0, waiters |-> <<>>,
     closed |-> FALSE, error |-> Null]

Resolved(id, data) == [id |-> id, kind |-> "resolve", data |-> data, err |-> Null]
Rejected(id, err) == [id |-> id, kind |-> "reject", data |-> <<>>, err |-> err]

\* flush's inner loop: copy size bytes from the head of the queue into out,
\* dropping a chunk that is used up and cutting one that is not
RECURSIVE copyOut(_, _, _)
copyOut(queue, out, size) ==
    IF Len(out) >= size THEN [queue |-> queue, out |-> out]
    ELSE LET head == Head(queue)
             take == Min(Len(head), size - Len(out))
         IN copyOut(IF take = Len(head)
                        THEN Tail(queue)
                        ELSE <<SubSeq(head, take + 1, Len(head))>> \o Tail(queue),
                    out \o SubSeq(head, 1, take),
                    size)

\* a flush that does not look at the stored error
RECURSIVE flushIgnoresError(_, _)
flushIgnoresError(b, ev) ==
    IF b.waiters = <<>> THEN [buf |-> b, events |-> ev]
    ELSE LET waiter == Head(b.waiters)
             shifted == [b EXCEPT !.waiters = Tail(@)]
         IN IF b.totalLength < waiter.size
                THEN IF b.closed
                        THEN [buf |-> shifted,
                              events |-> Append(ev, Rejected(waiter.id, ErrClosed))]
                        ELSE [buf |-> b, events |-> ev]
            ELSE LET c == copyOut(b.queue, <<>>, waiter.size)
                 IN flushIgnoresError([shifted EXCEPT !.queue = c.queue,
                                                      !.totalLength = @ - waiter.size],
                                      Append(ev, Resolved(waiter.id, c.out)))

\* flush(): serve the waiters from the head; ev collects the promises settled.
\* A negative size passes the length test and Buffer.allocUnsafe throws.
RECURSIVE flush(_, _)
flush(b, ev) ==
    IF b.waiters = <<>> THEN [buf |-> b, events |-> ev]
    ELSE LET waiter == Head(b.waiters)
             shifted == [b EXCEPT !.waiters = Tail(@)]
         IN IF b.error # Null
                THEN flush(shifted, Append(ev, Rejected(waiter.id, b.error)))
            ELSE IF b.totalLength < waiter.size
                THEN IF b.closed
                        THEN [buf |-> shifted,
                              events |-> Append(ev, Rejected(waiter.id, ErrClosed))]
                        ELSE [buf |-> b, events |-> ev]
            ELSE IF waiter.size < 0
                THEN [buf |-> shifted,
                      events |-> Append(ev, Rejected(waiter.id, ErrRange))]
            ELSE LET c == copyOut(b.queue, <<>>, waiter.size)
                 IN flush([shifted EXCEPT !.queue = c.queue,
                                          !.totalLength = @ - waiter.size],
                          Append(ev, Resolved(waiter.id, c.out)))

\* feed that queues the chunk and does not count its bytes
feedUncounted(b, chunk) ==
    IF b.closed \/ b.error # Null THEN [buf |-> b, events |-> <<>>]
    ELSE flush([b EXCEPT !.queue = Append(@, chunk)], <<>>)

\* feed(chunk)
feed(b, chunk) ==
    IF b.closed \/ b.error # Null THEN [buf |-> b, events |-> <<>>]
    ELSE flush([b EXCEPT !.queue = Append(@, chunk),
                         !.totalLength = @ + Len(chunk)], <<>>)

\* end() that marks the stream closed and forgets to flush
endNoFlush(b) == [buf |-> [b EXCEPT !.closed = TRUE], events |-> <<>>]

\* end()
end(b) == flush([b EXCEPT !.closed = TRUE], <<>>)

\* fail that records the error and leaves the waiters waiting
failKeepsWaiters(b, err) == [buf |-> [b EXCEPT !.error = err], events |-> <<>>]

\* fail(err)
fail(b, err) ==
    [buf |-> [b EXCEPT !.error = err, !.waiters = <<>>],
     events |-> [i \in 1..Len(b.waiters) |-> Rejected(b.waiters[i].id, err)]]

\* readExact that puts the new waiter in front of the older ones
readExactInFront(b, id, size) ==
    IF size = 0 THEN [buf |-> b, events |-> <<Resolved(id, <<>>)>>]
    ELSE flush([b EXCEPT !.waiters = <<[id |-> id, size |-> size]>> \o @], <<>>)

\* readExact that queues a request of size 0 like any other
readExactQueuesZero(b, id, size) ==
    flush([b EXCEPT !.waiters = Append(@, [id |-> id, size |-> size])], <<>>)

\* readExact(size), the promise being id
readExact(b, id, size) ==
    IF size = 0 THEN [buf |-> b, events |-> <<Resolved(id, <<>>)>>]
    ELSE flush([b EXCEPT !.waiters = Append(@, [id |-> id, size |-> size])], <<>>)

-----------------------------------------------------------------------------
(* 32-bit integer arithmetic of the bitwise operators.  A value is an       *)
(* integer of -2^31 .. 2^31 - 1: the operand of a bitwise operator after   *)
(* ToInt32, and its result.  \div and % floor, so that they shift and mask *)
(* a negative value as two's complement does.                             *)

Pow2(n) == 2 ^ n

\* bit k of a 32-bit value in two's complement, bit 31 being the sign
Bit(a, k) == IF k = 31 THEN (IF a < 0 THEN 1 ELSE 0) ELSE (a \div Pow2(k)) % 2

\* bits k to 31 of a & b, bit 31 carrying the sign
RECURSIVE BitsAnd(_, _, _)
BitsAnd(a, b, k) ==
    LET bit == IF Bit(a, k) = 1 /\ Bit(b, k) = 1 THEN 1 ELSE 0
    IN IF k = 31 THEN -bit ELSE 2 * BitsAnd(a, b, k + 1) + bit

RECURSIVE BitsOr(_, _, _)
BitsOr(a, b, k) ==
    LET bit == IF Bit(a, k) = 1 \/ Bit(b, k) = 1 THEN 1 ELSE 0
    IN IF k = 31 THEN -bit ELSE 2 * BitsOr(a, b, k + 1) + bit

\* a & b, a | b, ~a, a << n (0 < n < 32), a >> n
And(a, b) == BitsAnd(a, b, 0)
Or(a, b) == BitsOr(a, b, 0)
Not(a) == -1 - a
Shl(a, n) ==
    LET m == a % Pow2(32 - n)
    IN IF m >= Pow2(31 - n) THEN (m - Pow2(32 - n)) * Pow2(n) ELSE m * Pow2(n)
Shr(a, n) == a \div Pow2(n)

-----------------------------------------------------------------------------
(* Word codec.                                                             *)

\* the four bytes of a 32-bit value, the most significant first
lengthBytes(w) ==
    <<And(Shr(w, 24), 255), And(Shr(w, 16), 255), And(Shr(w, 8), 255), And(w, 255)>>

\* an encodeLength whose first range takes 0x80 in
encodeLengthInclusive(length) ==
    IF length <= 128 THEN <<length>>
    ELSE IF length < 16384
        THEN LET l == Or(length, 32768)
             IN <<And(Shr(l, 8), 255), And(l, 255)>>
    ELSE IF length < 2097152
        THEN LET l == Or(length, 12582912)
             IN <<And(Shr(l, 16), 255), And(Shr(l, 8), 255), And(l, 255)>>
    ELSE IF length < 268435456
        THEN LET l == Or(length, -536870912)
             IN <<And(Shr(l, 24), 255), And(Shr(l, 16), 255),
                  And(Shr(l, 8), 255), And(l, 255)>>
    ELSE <<240>> \o lengthBytes(length)

\* encodeLength(length): the length prefix, 1 to 5 bytes
encodeLength(length) ==
    IF length < 128 THEN <<length>>
    ELSE IF length < 16384
        THEN LET l == Or(length, 32768)
             IN <<And(Shr(l, 8), 255), And(l, 255)>>
    ELSE IF length < 2097152
        THEN LET l == Or(length, 12582912)
             IN <<And(Shr(l, 16), 255), And(Shr(l, 8), 255), And(l, 255)>>
    ELSE IF length < 268435456
        THEN LET l == Or(length, -536870912)    \* 0xe0000000 as a 32-bit operand
             IN <<And(Shr(l, 24), 255), And(Shr(l, 16), 255),
                  And(Shr(l, 8), 255), And(l, 255)>>
    ELSE <<240>> \o lengthBytes(length)

\* A length from 0 to 2^32 - 1 as the pair of its 16-bit halves, hi * 2^16 +
\* lo: the numbers the code computes with are wider than the integers here.
\* The same pair, with hi of any sign, holds what decodeLength returns.
Halves(hi, lo) == [hi |-> hi, lo |-> lo]
HalvesOf(i) == Halves(i \div 65536, i % 65536)

\* ToInt32 of a length, the operand the operators >> and & see
ToInt32(n) == (IF n.hi >= 32768 THEN n.hi - 65536 ELSE n.hi) * 65536 + n.lo

\* encodeLength(length) for every length below 2^32: from 2^31 every
\* comparison of encodeLength is false, and its last branch sees ToInt32
encodeLengthOf(n) ==
    IF n.hi < 32768 THEN encodeLength(n.hi * 65536 + n.lo)
    ELSE <<240>> \o lengthBytes(ToInt32(n))

\* a decodeLength that takes every first byte from 0xf0 for a five-byte prefix
decodeLengthMoreNoThrow(firstByte) ==
    IF And(firstByte, 128) = 0 THEN 0
    ELSE IF And(firstByte, 192) = 128 THEN 1
    ELSE IF And(firstByte, 224) = 192 THEN 2
    ELSE IF And(firstByte, 240) = 224 THEN 3
    ELSE 4

\* decodeLength, first half: the number of bytes to read after the first
\* byte, -1 where it throws "invalid length prefix"
decodeLengthMore(firstByte) ==
    IF And(firstByte, 128) = 0 THEN 0
    ELSE IF And(firstByte, 192) = 128 THEN 1
    ELSE IF And(firstByte, 224) = 192 THEN 2
    ELSE IF And(firstByte, 240) = 224 THEN 3
    ELSE IF And(firstByte, 248) = 240 THEN 4
    ELSE -1

\* decodeLength, second half: the length from the first byte and the bytes b
\* read after it
decodeLengthValue(firstByte, b) ==
    IF And(firstByte, 128) = 0 THEN firstByte
    ELSE IF And(firstByte, 192) = 128
        THEN Shl(And(firstByte, Not(192)), 8) + b[1]
    ELSE IF And(firstByte, 224) = 192
        THEN Shl(And(firstByte, Not(224)), 16) + Shl(b[1], 8) + b[2]
    ELSE IF And(firstByte, 240) = 224
        THEN Shl(And(firstByte, Not(240)), 24) + Shl(b[1], 16) + Shl(b[2], 8) + b[3]
    ELSE Shl(b[1], 24) + Shl(b[2], 16) + Shl(b[3], 8) + b[4]

\* decodeLength on the bytes of one prefix: the length it returns, or the
\* error it throws; the bytes it has not read stay in rest
decodeLengthOf(bytes) ==
    LET more == decodeLengthMore(bytes[1])
    IN IF more = -1 THEN [err |-> ErrPrefix, rest |-> Tail(bytes)]
       ELSE IF Len(bytes) < 1 + more THEN [err |-> ErrClosed, rest |-> <<>>]
       ELSE [err |-> Null,
             length |-> HalvesOf(decodeLengthValue(bytes[1], SubSeq(bytes, 2, 1 + more))),
             rest |-> SubSeq(bytes, 2 + more, Len(bytes))]

\* Buffer.from(word, "utf8"): a string is the sequence of its code points
\* (below 0x10000, no surrogates)
RECURSIVE utf8Bytes(_)
utf8Bytes(word) ==
    IF word = <<>> THEN <<>>
    ELSE LET c == Head(word)
         IN (IF c < 128 THEN <<c>>
             ELSE IF c < 2048 THEN <<192 + (c \div 64), 128 + (c % 64)>>
             ELSE <<224 + (c \div 4096), 128 + ((c \div 64) % 64), 128 + (c % 64)>>)
            \o utf8Bytes(Tail(word))

IsCont(data, i) == i <= Len(data) /\ data[i] >= 128 /\ data[i] < 192

\* data.toString("latin1"): one character per byte
latin1String(data) == data

\* data.toString("utf8"): never throws; a byte that starts no well-formed
\* sequence decodes to U+FFFD
RECURSIVE utf8String(_)
utf8String(data) ==
    IF data = <<>> THEN <<>>
    ELSE LET c == Head(data)
             n == Len(data)
         IN IF c < 128 THEN <<c>> \o utf8String(Tail(data))
            ELSE IF c >= 194 /\ c < 224 /\ IsCont(data, 2)
                THEN <<(c - 192) * 64 + (data[2] - 128)>> \o utf8String(SubSeq(data, 3, n))
            ELSE IF c >= 224 /\ c < 240 /\ IsCont(data, 2) /\ IsCont(data, 3)
                    /\ (c - 224) * 4096 + (data[2] - 128) * 64 + (data[3] - 128) >= 2048
                THEN <<(c - 224) * 4096 + (data[2] - 128) * 64 + (data[3] - 128)>>
                     \o utf8String(SubSeq(data, 4, n))
            ELSE <<65533>> \o utf8String(Tail(data))

\* the bytes sendWord writes: the length prefix, then the UTF-8 bytes
sendWordLength(word) == encodeLength(Len(utf8Bytes(word)))
sendWordData(word) == utf8Bytes(word)

\* the k-th write of sendSentence(words): two writes per word, then the two
\* writes of the empty word that ends the sentence
sendSentenceWrite(words, k) ==
    LET word == IF (k + 1) \div 2 <= Len(words) THEN words[(k + 1) \div 2] ELSE <<>>
    IN IF k % 2 = 1 THEN sendWordLength(word) ELSE sendWordData(word)
sendSentenceWrites(words) == 2 * (Len(words) + 1)

-----------------------------------------------------------------------------
(* Replies.                                                                *)

\* strings, as code points
S_done == <<33,100,111,110,101>>                     \* "!done"
S_empty == <<33,101,109,112,116,121>>                \* "!empty"
S_re == <<33,114,101>>                               \* "!re"
S_trap == <<33,116,114,97,112>>                      \* "!trap"
S_ret == <<61,114,101,116>>                          \* "=ret"
S_retAB == <<61,114,101,116,61,97,98>>               \* "=ret=ab"
S_message == <<61,109,101,115,115,97,103,101,61,120>> \* "=message=x"
S_id == <<61,46,105,100,61,42,49>>                   \* "=.id=*1"
S_login == <<47,108,111,103,105,110>>                \* "/login"
S_name == <<61,110,97,109,101,61>>                   \* "=name="
S_password == <<61,112,97,115,115,119,111,114,100,61>> \* "=password="
S_response00 == <<61,114,101,115,112,111,110,115,101,61,48,48>> \* "=response=00"
S_print == <<47,113,117,101,117,101,47,115,105,109,112,108,101,47,112,114,105,110,116>> \* "/queue/simple/print"
EqualsSign == <<61>>                                 \* "="

\* word.indexOf("=", from): the 0-based position, -1 when there is none
RECURSIVE indexOfEquals(_, _)
indexOfEquals(word, from) ==
    IF from >= Len(word) THEN -1
    ELSE IF word[from + 1] = EqualsSign[1] THEN from
    ELSE indexOfEquals(word, from + 1)

\* the position at which sendCommand splits an attribute word
splitIndex(word) == indexOfEquals(word, 1)

\* the key and the value sendCommand takes from one word
attributeKey(word) ==
    IF splitIndex(word) = -1 THEN word ELSE SubSeq(word, 1, splitIndex(word))
attributeValue(word) ==
    IF splitIndex(word) = -1 THEN <<>> ELSE SubSeq(word, splitIndex(word) + 2, Len(word))

\* the one key an assignment of a string leaves out of an object literal:
\* "__proto__" names the accessor inherited from Object.prototype, whose
\* setter ignores a value that is no object
ProtoKey == <<95,95,112,114,111,116,111,95,95>>          \* "__proto__"

\* attributes[key] = value
setAttribute(attributes, key, value) ==
    IF key = ProtoKey THEN attributes
    ELSE [k \in DOMAIN attributes \cup {key} |-> IF k = key THEN value ELSE attributes[k]]

\* the attributes object filled word by word: a later word overwrites an
\* earlier one with the same key
RECURSIVE attributesOf(_, _)
attributesOf(words, attributes) ==
    IF words = <<>> THEN attributes
    ELSE attributesOf(
            Tail(words),
            setAttribute(attributes, attributeKey(Head(words)), attributeValue(Head(words))))

NoAttributes == [k \in {} |-> <<>>]

\* the tuple sendCommand yields for a sentence of at least one word
replyOf(sentence) ==
    [type |-> sentence[1], attributes |-> attributesOf(Tail(sentence), NoAttributes)]

\* a loop that "!trap" ends too
isLastReplyOrTrap(replyType) == replyType \in {S_done, S_empty, S_trap}

\* a loop that ends on "!done" alone
isLastReplyDoneOnly(replyType) == replyType = S_done

\* the reply types that end sendCommand's loop
isLastReply(replyType) == replyType = S_done \/ replyType = S_empty

-----------------------------------------------------------------------------
(* SpecBuf: one SocketBuffer under arbitrary calls.                        *)

\* no readExact promise awaited
\* the codec before any value is taken in hand
CodecIdle == [pc |-> "idle"]

NoRead == [status |-> "none", data |-> <<>>, err |-> Null]

\* the router before its queues are known, and RouterAPI before any call
RouterInit == [queues |-> <<>>, nextId |-> 1, configured |-> FALSE, initial |-> <<>>]
SetQueueCalls == {1, 2}
ApiInit == [p \in SetQueueCalls |-> [pc |-> "idle", queues |-> <<>>, todo |-> <<>>]]

\* the caller before any call: pc is where it stands, sent the sendCommand
\* calls it has made on the client, closes its close() calls, err what it has
\* caught, result the Set a query fills, conn what getConnection has come to;
\* query, command, queries and conns are those of RouterAPI.query
CallerInit ==
    [pc |-> "init", sent |-> 0, closes |-> 0, err |-> Null, result |-> {},
     conn |-> "none", query |-> FALSE, command |-> <<>>, queries |-> 0, conns |-> 0]

\* the record kept of a readExact call
Pending(size) == [size |-> size, status |-> "pending", data |-> <<>>, err |-> Null]

RECURSIVE Settle(_, _)
Settle(rs, ev) ==
    IF ev = <<>> THEN rs
    ELSE LET e == Head(ev)
         IN Settle([rs EXCEPT ![e.id] =
                        [@ EXCEPT !.status = IF e.kind = "resolve" THEN "resolved"
                                                                   ELSE "rejected",
                                  !.data = e.data,
                                  !.err = e.err]],
                   Tail(ev))

EventIds(ev) == [i \in 1..Len(ev) |-> ev[i].id]

Apply(r, rs) ==
    /\ buffer' = r.buf
    /\ reads' = Settle(rs, r.events)
    /\ completed' = completed \o EventIds(r.events)

Init ==
    /\ buffer = NewSocketBuffer
    /\ reads = <<>>
    /\ completed = <<>>
    /\ fedBytes = <<>>
    /\ nFeeds = 0
    /\ sock = "open"
    /\ wire = <<>>
    /\ net = <<>>
    /\ peerSent = <<>>
    /\ gens = <<>>
    /\ rd = NoRead
    /\ login = [active |-> FALSE, result |-> "none", err |-> Null]
    /\ caller = CallerInit
    /\ rxLog = <<>>
    /\ yields = <<>>
    /\ cmds = <<>>
    /\ errInFlight = Null
    /\ codec = CodecIdle
    /\ router = RouterInit
    /\ api = ApiInit

Feed ==
    /\ nFeeds + Len(reads) < MaxCalls
    /\ \E n \in 0..MaxChunk :
        LET chunk == Chunk(Len(fedBytes), n)
        IN /\ Apply(feed(buffer, chunk), reads)
           /\ fedBytes' = fedBytes \o chunk
    /\ nFeeds' = nFeeds + 1
    /\ UNCHANGED <<sessionVars, codec, apiVars>>

End ==
    /\ Apply(end(buffer), reads)
    /\ UNCHANGED <<fedBytes, nFeeds, sessionVars, codec, apiVars>>

Fail ==
    /\ \E err \in SockErrors : Apply(fail(buffer, err), reads)
    /\ UNCHANGED <<fedBytes, nFeeds, sessionVars, codec, apiVars>>

ReadExact ==
    /\ nFeeds + Len(reads) < MaxCalls
    /\ \E size \in 0..MaxSize :
        Apply(readExact(buffer, Len(reads) + 1, size), Append(reads, Pending(size)))
    /\ UNCHANGED <<fedBytes, nFeeds, sessionVars, codec, apiVars>>

BufNext == Feed \/ End \/ Fail \/ ReadExact

SpecBuf == Init /\ [][BufNext]_vars

-----------------------------------------------------------------------------
(* Session: RouterOSClient on one socket.                                  *)

\* the credentials the caller logs in with: "u", and a password of one
\* character that UTF-8 writes in two bytes
Username == <<117>>
Password == <<233>>

\* the commands a caller passes to sendCommand: none at all, and the one of
\* RouterAPI.getQueues
Commands == {<<>>, <<S_print>>}

HexDigits == <<48,49,50,51,52,53,54,55,56,57,97,98,99,100,101,102>>  \* "0123456789abcdef"
HexValue(c) ==
    IF c >= 48 /\ c <= 57 THEN c - 48
    ELSE IF c >= 97 /\ c <= 102 THEN c - 87
    ELSE IF c >= 65 /\ c <= 70 THEN c - 55
    ELSE -1

\* Buffer.from(text, "hex"): pairs of hex digits, up to the first that is none
RECURSIVE hexBytes(_)
hexBytes(text) ==
    IF Len(text) < 2 \/ HexValue(text[1]) < 0 \/ HexValue(text[2]) < 0 THEN <<>>
    ELSE <<16 * HexValue(text[1]) + HexValue(text[2])>> \o hexBytes(SubSeq(text, 3, Len(text)))

\* digest("hex") of the bytes given to update(): MD5 is the crypto library's,
\* not this repository's; it is modelled as a digest that no two inputs share,
\* the hex text of the input itself
RECURSIVE md5Hex(_)
md5Hex(data) ==
    IF data = <<>> THEN <<>>
    ELSE <<HexDigits[(Head(data) \div 16) + 1], HexDigits[(Head(data) % 16) + 1]>>
         \o md5Hex(Tail(data))

\* the command of the first login exchange
loginCommand == <<S_login, S_name \o Username, S_password \o Password>>

\* a response whose digest takes the challenge before the password
responseChallengeFirst(challengeHex) ==
    <<S_login, S_name \o Username,
      S_response00 \o md5Hex(hexBytes(challengeHex) \o <<0>> \o utf8Bytes(Password))>>

\* the command of the second login exchange, for the challenge of =ret
responseCommand(challengeHex) ==
    <<S_login, S_name \o Username,
      S_response00 \o md5Hex(<<0>> \o utf8Bytes(Password) \o hexBytes(challengeHex))>>

\* login's loop body on a reply that is no "!trap", in the loop over the first
\* exchange (depth 1) or over the second (depth 2)
loginWantsResponse(depth, reply) == depth = 1 /\ S_ret \in DOMAIN reply.attributes

\* a login that tests for "!trap" in its first loop only
loginFailsFirstLoopOnly(depth, reply) == depth = 1 /\ reply.type = S_trap

\* login's test of a reply in either loop
loginFails(depth, reply) == reply.type = S_trap

NoReply == [type |-> <<>>, attributes |-> NoAttributes]

\* this.socket.write(buffer, cb): the bytes go out unless the socket is no
\* longer open, and cb then gets the error
socketWrite(c, bytes) ==
    [wire |-> IF c.sock = "open" THEN c.wire \o bytes ELSE c.wire, err |-> c.sock # "open"]

\* the client's part of the state, as one value
Client ==
    [buffer |-> buffer, wire |-> wire, gens |-> gens, rd |-> rd, login |-> login,
     caller |-> caller, rxLog |-> rxLog, yields |-> yields, cmds |-> cmds, sock |-> sock]

Commit(c) ==
    /\ buffer' = c.buffer
    /\ wire' = c.wire
    /\ gens' = c.gens
    /\ rd' = c.rd
    /\ login' = c.login
    /\ caller' = c.caller
    /\ rxLog' = c.rxLog
    /\ yields' = c.yields
    /\ cmds' = c.cmds
    /\ sock' = c.sock

Top(c) == c.gens[Len(c.gens)]
SetTop(c, f) == [c EXCEPT !.gens[Len(c.gens)] = f]

\* what a settled promise looks like to the code awaiting it
readOutcome(old, events) ==
    IF events = <<>> THEN old
    ELSE [status |-> IF events[1].kind = "resolve" THEN "resolved" ELSE "rejected",
          data |-> events[1].data, err |-> events[1].err]

\* await this.buffer.readExact(size)
awaitRead(c, size) ==
    LET r == readExact(c.buffer, 0, size)
    IN [c EXCEPT !.buffer = r.buf,
                 !.rd = readOutcome([status |-> "pending", data |-> <<>>, err |-> Null],
                                    r.events)]

Finish(cs, ids, status) ==
    [i \in 1..Len(cs) |-> IF i \in ids THEN [cs[i] EXCEPT !.status = status] ELSE cs[i]]
LiveIds(c) == {c.gens[i].id : i \in 1..Len(c.gens)}

\* socket.end(): the client's side of the socket is shut for writing
socketEnd(s) == IF s = "open" THEN "halfClosed" ELSE s

\* a query that closes the connection only when its loop has ended normally
queryEndsWithoutFinally(c, threw) ==
    IF threw THEN c
    ELSE [c EXCEPT !.sock = socketEnd(@), !.caller.closes = @ + 1,
                   !.caller.pc = "queryDone"]

\* RouterAPI.query when its loop has ended or thrown: finally conn.close(),
\* and then the result returned, or the error thrown on
queryEnds(c, threw) ==
    LET closed == [c EXCEPT !.sock = socketEnd(@), !.caller.closes = @ + 1]
    IN IF threw THEN closed ELSE [closed EXCEPT !.caller.pc = "queryDone"]

\* an error thrown inside a generator: it leaves every for-await loop and
\* login, up to the caller
raise(c, err) ==
    LET thrown ==
            [c EXCEPT !.gens = <<>>,
                      !.rd = NoRead,
                      !.cmds = Finish(@, LiveIds(c), "raised"),
                      !.login = IF @.active
                                    THEN [active |-> FALSE, result |-> "raised", err |-> err]
                                    ELSE @,
                      !.caller = [@ EXCEPT !.pc = "failed", !.err = err,
                                           !.conn = IF @ = "opening" THEN "thrown" ELSE @]]
    IN IF c.caller.query /\ c.caller.conn = "returned" THEN queryEnds(thrown, TRUE)
       ELSE thrown

\* The session is in the state Ready: login has returned true, close() has
\* not been called and no operation has raised.  The client keeps no such
\* state; the sendCommand calls are marked with it.
IsReady(c) == c.login.result = "true" /\ c.caller.closes = 0 /\ c.caller.err = Null

\* a getConnection that returns the client whatever login has returned
getConnectionReturnsAnyway(c, loginSuccess) ==
    [c EXCEPT !.caller.pc = "ready", !.caller.conn = "returned"]

\* getConnection after "await client.login": the client is returned, or the
\* socket ended and "Failed to login" thrown
getConnectionAfterLogin(c, loginSuccess) ==
    IF loginSuccess
        THEN [c EXCEPT !.caller.pc = "ready", !.caller.conn = "returned"]
    ELSE [c EXCEPT !.sock = socketEnd(@),
                   !.caller.pc = "loginFailed", !.caller.err = ErrLogin,
                   !.caller.conn = "thrown"]

\* sendCommand(words) and the first next(): the generator starts sendSentence
\* with the first write
startCommand(c, words) ==
    LET w == socketWrite(c, sendSentenceWrite(words, 1))
    IN [c EXCEPT !.gens = Append(@, [id |-> Len(c.cmds) + 1, words |-> words,
                                     pc |-> "send", wi |-> 1, werr |-> w.err,
                                     sentence |-> <<>>, firstByte |-> 0,
                                     reply |-> NoReply]),
                 !.wire = w.wire,
                 !.cmds = Append(@, [words |-> words, status |-> "running",
                                     login |-> c.login.active,
                                     ready |-> IsReady(c),
                                     wireAt |-> Len(c.wire)])]

\* RouterAPI.query once getConnection has returned the client: sendCommand
\* and the first next() of its loop
querySendsCommand(c) ==
    IF c.caller.query
        THEN startCommand([c EXCEPT !.caller.pc = "inCommand", !.caller.sent = @ + 1],
                          c.caller.command)
    ELSE c

\* the running generator returns, and the loop over it ends: login's inner
\* loop ends the body of its outer loop, login's outer loop ends login with
\* true, the caller's loop ends the caller's command
genReturn(c) ==
    LET n == Len(c.gens)
        popped == [c EXCEPT !.gens = SubSeq(@, 1, n - 1),
                            !.cmds = Finish(@, {Top(c).id}, "done")]
    IN IF c.login.active /\ n = 2
           THEN [popped EXCEPT !.gens[1].pc = "resume"]
       ELSE IF c.login.active
           THEN querySendsCommand(
                    getConnectionAfterLogin(
                        [popped EXCEPT !.login = [active |-> FALSE, result |-> "true",
                                                  err |-> Null]],
                        TRUE))
       ELSE IF c.caller.query THEN queryEnds(popped, FALSE)
       ELSE [popped EXCEPT !.caller.pc = "ready"]

\* a login that throws where it should return false
loginThrows(c) == raise(c, ErrLogin)

\* login returns false from inside its loops
loginReturnsFalse(c) ==
    getConnectionAfterLogin(
        [c EXCEPT !.gens = <<>>,
                  !.cmds = Finish(@, LiveIds(c), "abandoned"),
                  !.login = [active |-> FALSE, result |-> "false", err |-> Null]],
        FALSE)

\* sendCommand after sendSentence has returned sentCount
afterSend(c) ==
    IF Len(Top(c).words) = 0 THEN genReturn(c)
    ELSE awaitRead(SetTop(c, [Top(c) EXCEPT !.pc = "len"]), 1)

\* the callback of the write sendSentence awaits
writeDone(c) ==
    LET g == Top(c)
    IN IF g.werr THEN raise(c, ErrWrite)
       ELSE IF g.wi < sendSentenceWrites(g.words)
           THEN LET w == socketWrite(c, sendSentenceWrite(g.words, g.wi + 1))
                IN [SetTop(c, [g EXCEPT !.wi = @ + 1, !.werr = w.err]) EXCEPT !.wire = w.wire]
       ELSE afterSend(c)

\* a sendCommand that keeps every reply but the last to itself
sentenceReceivedLate(c, sentence) ==
    LET g == Top(c)
        logged == [c EXCEPT !.rxLog = Append(@, sentence)]
    IN IF Len(sentence) = 0 \/ ~isLastReply(sentence[1])
           THEN awaitRead(SetTop(logged, [g EXCEPT !.pc = "len", !.sentence = <<>>]), 1)
       ELSE [SetTop(logged, [g EXCEPT !.pc = "yield", !.sentence = <<>>,
                                      !.reply = replyOf(sentence)])
                EXCEPT !.rd = NoRead,
                       !.yields = Append(@, [gen |-> g.id, rx |-> Len(logged.rxLog),
                                             reply |-> replyOf(sentence)])]

\* receiveSentence has returned sentence to sendCommand
sentenceReceived(c, sentence) ==
    LET g == Top(c)
        logged == [c EXCEPT !.rxLog = Append(@, sentence)]
    IN IF Len(sentence) = 0
           THEN awaitRead(SetTop(logged, [g EXCEPT !.pc = "len", !.sentence = <<>>]), 1)
       ELSE [SetTop(logged, [g EXCEPT !.pc = "yield", !.sentence = <<>>,
                                      !.reply = replyOf(sentence)])
                EXCEPT !.rd = NoRead,
                       !.yields = Append(@, [gen |-> g.id, rx |-> Len(logged.rxLog),
                                             reply |-> replyOf(sentence)])]

\* the code that awaited the readExact promise now resolved: decodeLength,
\* receiveWord, receiveSentence
readDone(c) ==
    LET g == Top(c)
        data == c.rd.data
    IN IF g.pc = "len"
           THEN IF decodeLengthMore(data[1]) = -1 THEN raise(c, ErrPrefix)
                ELSE IF decodeLengthMore(data[1]) = 0
                    THEN awaitRead(SetTop(c, [g EXCEPT !.pc = "data"]),
                                   decodeLengthValue(data[1], <<>>))
                ELSE awaitRead(SetTop(c, [g EXCEPT !.pc = "ext", !.firstByte = data[1]]),
                               decodeLengthMore(data[1]))
       ELSE IF g.pc = "ext"
           THEN awaitRead(SetTop(c, [g EXCEPT !.pc = "data"]),
                          decodeLengthValue(g.firstByte, data))
       ELSE IF utf8String(data) = <<>>
           THEN sentenceReceived(c, g.sentence)
       ELSE awaitRead(SetTop(c, [g EXCEPT !.pc = "len",
                                          !.sentence = Append(@, utf8String(data))]), 1)

\* sendCommand after its yield
genResume(c) ==
    IF isLastReply(Top(c).reply.type) THEN genReturn(c)
    ELSE awaitRead(SetTop(c, [Top(c) EXCEPT !.pc = "len"]), 1)

\* the body of login's loops on one reply
loginBody(c) ==
    LET depth == Len(c.gens)
        reply == Top(c).reply
    IN IF loginFails(depth, reply) THEN loginReturnsFalse(c)
       ELSE IF loginWantsResponse(depth, reply)
           THEN startCommand(c, responseCommand(reply.attributes[S_ret]))
       ELSE SetTop(c, [Top(c) EXCEPT !.pc = "resume"])

\* the body of RouterAPI.query's loop on one reply
queryBody(c) ==
    [SetTop(c, [Top(c) EXCEPT !.pc = "resume"])
        EXCEPT !.caller.result = IF Top(c).reply.type = S_re
                                     THEN @ \cup {Top(c).reply.attributes} ELSE @]

\* The client has code to run before the next socket event is looked at: a
\* settled promise's continuation, a loop body, a generator to resume.
Runnable ==
    \/ rd.status \in {"resolved", "rejected"}
    \/ gens # <<>> /\ Top(Client).pc \in {"yield", "resume"}

sessionFrame == UNCHANGED <<driverVars, net, peerSent, errInFlight, codec, apiVars>>

CallLogin ==
    /\ caller.pc = "init"
    /\ Commit(startCommand([Client EXCEPT !.login.active = TRUE, !.caller.pc = "inLogin",
                                          !.caller.conn = "opening"],
                            loginCommand))
    /\ sessionFrame

CallSendCommand ==
    /\ caller.pc \in {"init", "ready"}
    /\ caller.sent < MaxCommands
    /\ \E words \in Commands :
        Commit([startCommand(Client, words)
                    EXCEPT !.caller.pc = "inCommand", !.caller.sent = @ + 1])
    /\ sessionFrame

WriteDone ==
    /\ gens # <<>> /\ Top(Client).pc = "send"
    /\ Commit(writeDone(Client))
    /\ sessionFrame

ReadDone ==
    /\ rd.status = "resolved"
    /\ Commit(readDone(Client))
    /\ sessionFrame

ReadFailed ==
    /\ rd.status = "rejected"
    /\ Commit(raise(Client, rd.err))
    /\ sessionFrame

LoginBody ==
    /\ gens # <<>> /\ Top(Client).pc = "yield" /\ login.active
    /\ Commit(loginBody(Client))
    /\ sessionFrame

QueryBody ==
    /\ gens # <<>> /\ Top(Client).pc = "yield" /\ ~login.active
    /\ Commit(queryBody(Client))
    /\ sessionFrame

GenResume ==
    /\ gens # <<>> /\ Top(Client).pc = "resume"
    /\ Commit(genResume(Client))
    /\ sessionFrame

-----------------------------------------------------------------------------
(* The socket's events (the constructor's handlers) and the peer.          *)

clientFrame ==
    UNCHANGED <<driverVars, wire, gens, login, caller, rxLog, yields, cmds, codec, apiVars>>

\* "data": this.buffer.feed(chunk), the chunk being one byte or as many as
\* MaxChunk allows.  While no read is pending the transport runs at most
\* MaxAhead chunks ahead of the client.
SockData ==
    /\ sock \in {"open", "halfClosed"} /\ net # <<>> /\ ~Runnable
    /\ rd.status = "pending" \/ Len(buffer.queue) < MaxAhead
    /\ \E n \in {1, Min(MaxChunk, Len(net))} :
        LET r == feed(buffer, SubSeq(net, 1, n))
        IN /\ buffer' = r.buf
           /\ rd' = readOutcome(rd, r.events)
           /\ net' = SubSeq(net, n + 1, Len(net))
    /\ UNCHANGED <<sock, peerSent, errInFlight>>
    /\ clientFrame

\* "end": this.buffer.end(), after the last byte the peer sent
SockEnd ==
    /\ sock \in {"open", "halfClosed"} /\ net = <<>> /\ ~Runnable
    /\ LET r == end(buffer)
       IN buffer' = r.buf /\ rd' = readOutcome(rd, r.events)
    /\ sock' = "ended"
    /\ UNCHANGED <<net, peerSent, errInFlight>>
    /\ clientFrame

\* "error": this.buffer.fail(err)
SockError ==
    /\ sock \in {"open", "halfClosed", "ended"} /\ ~Runnable
    /\ \E err \in SessionErrors :
        LET r == fail(buffer, err)
        IN /\ buffer' = r.buf
           /\ rd' = readOutcome(rd, r.events)
           /\ errInFlight' = IF rd.status = "pending" THEN err ELSE errInFlight
    /\ sock' = "errored"
    /\ net' = <<>>
    /\ UNCHANGED peerSent
    /\ clientFrame

\* "close": this.buffer.end()
SockClose ==
    /\ sock \in {"ended", "errored"} /\ ~Runnable
    /\ LET r == end(buffer)
       IN buffer' = r.buf /\ rd' = readOutcome(rd, r.events)
    /\ sock' = "closed"
    /\ UNCHANGED <<net, peerSent, errInFlight>>
    /\ clientFrame

\* the bytes of a sentence on the wire
RECURSIVE sentenceBytes(_)
sentenceBytes(words) ==
    IF words = <<>> THEN sendWordLength(<<>>) \o sendWordData(<<>>)
    ELSE sendWordLength(Head(words)) \o sendWordData(Head(words)) \o sentenceBytes(Tail(words))

\* the complete sentences in bytes, as a reader of the wire decodes them
RECURSIVE wireSentences(_, _)
wireSentences(bytes, sentence) ==
    IF bytes = <<>> THEN <<>>
    ELSE LET more == decodeLengthMore(bytes[1])
         IN IF more < 0 \/ Len(bytes) < 1 + more THEN <<>>
            ELSE LET length == decodeLengthValue(bytes[1], SubSeq(bytes, 2, 1 + more))
                     rest == SubSeq(bytes, 2 + more + length, Len(bytes))
                     word == utf8String(SubSeq(bytes, 2 + more, 1 + more + length))
                 IN IF Len(bytes) < 1 + more + length THEN <<>>
                    ELSE IF length = 0 THEN <<sentence>> \o wireSentences(rest, <<>>)
                    ELSE wireSentences(rest, Append(sentence, word))

\* the commands the peer has received: it takes an empty sentence as no command
PeerCommands == SelectSeq(wireSentences(wire, <<>>), LAMBDA sn : sn # <<>>)

\* the protocol's last sentence of an answer: "!done" or "!empty"
EndsAnswer(words) == words # <<>> /\ words[1] \in {S_done, S_empty}

\* the command the peer answers next: one more than the answers it has ended
PeerAnswering == 1 + Len(SelectSeq(peerSent, LAMBDA p : EndsAnswer(p.words)))

\* what the peer may answer to a command
LoginReplies ==
    {<<S_done>>, <<S_done, S_retAB>>, <<S_re, S_retAB>>, <<S_trap>>}
CommandReplies ==
    {<<S_re, S_id>>, <<S_done>>, <<S_trap, S_message>>, <<S_empty>>, <<>>}
RepliesTo(command) == IF command[1] = S_login THEN LoginReplies ELSE CommandReplies

\* the peer sends one more sentence in answer to the oldest command open
PeerSend ==
    /\ sock = "open" /\ ~Runnable
    /\ Len(peerSent) < MaxSentences
    /\ PeerAnswering <= Len(PeerCommands)
    /\ \E words \in RepliesTo(PeerCommands[PeerAnswering]) :
        /\ net' = net \o sentenceBytes(words)
        /\ peerSent' = Append(peerSent, [cmd |-> PeerAnswering, words |-> words])
    /\ UNCHANGED <<buffer, rd, sock, errInFlight>>
    /\ clientFrame

Next ==
    \/ (CallLogin \/ CallSendCommand \/ WriteDone \/ ReadDone \/ ReadFailed
        \/ LoginBody \/ QueryBody \/ GenResume)
    \/ (SockData \/ SockEnd \/ SockError \/ SockClose \/ PeerSend)

Spec == Init /\ [][Next]_vars

-----------------------------------------------------------------------------
(* SpecCalls: the session with a caller that calls sendCommand and close() *)
(* in whatever state the session is, and a peer that may send a byte no    *)
(* length prefix starts with.                                              *)

\* the close() calls of one run
MaxCloses == 2

\* the sendCommand calls of one run: one more than Spec's caller makes
MaxLaterCommands == MaxCommands + 1

\* a first byte with the five top bits set
BadPrefix == 248

\* the caller has no login or sendCommand in flight
CallerIdle == caller.pc \in {"init", "ready", "failed", "loginFailed"}

\* sendCommand called whatever has happened on the session before
CallSendCommandAnyState ==
    /\ CallerIdle
    /\ caller.sent < MaxLaterCommands
    /\ \E words \in Commands \ {<<>>} :
        Commit([startCommand(Client, words)
                    EXCEPT !.caller.pc = "inCommand", !.caller.sent = @ + 1])
    /\ sessionFrame

\* close(): this.socket.end() ends the writable side, once; the readable
\* side stays as it is until the peer ends it
CallClose ==
    /\ CallerIdle
    /\ caller.closes < MaxCloses
    /\ sock' = socketEnd(sock)
    /\ caller' = [caller EXCEPT !.closes = @ + 1]
    /\ UNCHANGED <<buffer, driverVars, wire, net, peerSent, gens, rd, login, rxLog,
                   yields, cmds, errInFlight, codec, apiVars>>

\* the peer sends a byte that starts no length prefix
PeerGarbage ==
    /\ sock = "open" /\ ~Runnable
    /\ Len(peerSent) < MaxSentences
    /\ net' = net \o <<BadPrefix>>
    /\ peerSent' = Append(peerSent, [cmd |-> 0, words |-> <<>>])
    /\ UNCHANGED <<buffer, rd, sock, errInFlight>>
    /\ clientFrame

CallsNext ==
    \/ (CallLogin \/ CallSendCommandAnyState \/ CallClose \/ WriteDone \/ ReadDone
        \/ ReadFailed \/ LoginBody \/ QueryBody \/ GenResume)
    \/ (SockData \/ SockEnd \/ SockClose \/ PeerSend \/ PeerGarbage)

SpecCalls == Init /\ [][CallsNext]_vars

-----------------------------------------------------------------------------
(* SpecQuery: RouterAPI.query, one call after the other, each on the       *)
(* connection it opens.                                                    *)

\* the queries of one run
MaxQueries == 2

\* the commands queried: that of getQueues
QueryCommands == {<<S_print>>}

\* openSocket has resolved and the constructor has run: a new socket, a new
\* client with an empty SocketBuffer
NewConnection(c) ==
    [c EXCEPT !.buffer = NewSocketBuffer, !.wire = <<>>, !.gens = <<>>, !.rd = NoRead,
              !.login = [active |-> FALSE, result |-> "none", err |-> Null],
              !.rxLog = <<>>, !.yields = <<>>, !.cmds = <<>>, !.sock = "open",
              !.caller = [@ EXCEPT !.conns = @ + 1, !.closes = 0, !.sent = 0]]

\* query(nas, command) up to its first await that the socket answers: the
\* empty result, getConnection, login's first write
CallQuery ==
    /\ caller.pc \in {"init", "queryDone", "failed", "loginFailed"}
    /\ caller.queries < MaxQueries
    /\ \E command \in QueryCommands :
        LET q == [Client EXCEPT !.caller = [@ EXCEPT !.query = TRUE, !.command = command,
                                                     !.queries = @ + 1, !.result = {},
                                                     !.err = Null]]
            n == NewConnection(q)
        IN Commit(startCommand([n EXCEPT !.login.active = TRUE, !.caller.pc = "inLogin",
                                         !.caller.conn = "opening"],
                               loginCommand))
    /\ net' = <<>> /\ peerSent' = <<>> /\ errInFlight' = Null
    /\ UNCHANGED <<driverVars, codec, apiVars>>

QueryNext ==
    \/ (CallQuery \/ WriteDone \/ ReadDone \/ ReadFailed \/ LoginBody \/ QueryBody
        \/ GenResume)
    \/ (SockData \/ SockEnd \/ SockError \/ SockClose \/ PeerSend \/ PeerGarbage)

SpecQuery == Init /\ [][QueryNext]_vars

-----------------------------------------------------------------------------
(* SpecEcho: the client's own command sentence comes back to it, byte for  *)
(* byte, in every chunking SockData allows.                                *)

\* "/a", "=b=c", and a word of a two-byte and a three-byte character
W_a == <<47, 97>>
W_bc == <<61, 98, 61, 99>>
W_wide == <<233, 8364>>

\* the commands echoed
EchoCommands == {<<W_a, W_bc>>, <<W_wide>>, <<W_bc, W_wide, W_a>>}

CallEcho ==
    /\ caller.pc = "init"
    /\ \E words \in EchoCommands :
        Commit([startCommand(Client, words)
                    EXCEPT !.caller.pc = "inCommand", !.caller.sent = @ + 1])
    /\ sessionFrame

\* the peer returns the bytes written, once the client waits for a reply
PeerEcho ==
    /\ sock = "open" /\ ~Runnable /\ peerSent = <<>>
    /\ gens # <<>> /\ Top(Client).pc = "len"
    /\ net' = wire
    /\ peerSent' = <<[cmd |-> 1, words |-> <<>>]>>
    /\ UNCHANGED <<buffer, rd, sock, errInFlight>>
    /\ clientFrame

EchoNext ==
    \/ CallEcho \/ WriteDone \/ ReadDone \/ QueryBody \/ GenResume
    \/ SockData \/ PeerEcho

SpecEcho == Init /\ [][EchoNext]_vars

-----------------------------------------------------------------------------
(* SpecCodec: the length codec on lengths around the limits of its ranges. *)

\* how far from a limit the lengths go
MaxDelta == 3

\* the limits of encodeLength's ranges, 2^31 where ToInt32 changes sign, 2^32
RangeLimits ==
    {Halves(0, 0), Halves(0, 128), Halves(0, 16384), Halves(32, 0), Halves(4096, 0),
     Halves(32768, 0), Halves(65536, 0)}
Shift(n, d) == Halves(n.hi + ((n.lo + d) \div 65536), (n.lo + d) % 65536)
Lengths ==
    {n \in {Shift(limit, d) : limit \in RangeLimits, d \in -MaxDelta..MaxDelta} :
        n.hi \in 0..65535}

codecFrame == UNCHANGED <<buffer, driverVars, sessionVars, apiVars>>

ChooseLength ==
    /\ codec.pc = "idle"
    /\ \E n \in Lengths : codec' = [pc |-> "length", length |-> n]
    /\ codecFrame

EncodeLength ==
    /\ codec.pc = "length"
    /\ codec' = [pc |-> "prefix", length |-> codec.length,
                 prefix |-> encodeLengthOf(codec.length)]
    /\ codecFrame

DecodeLength ==
    /\ codec.pc = "prefix"
    /\ codec' = [pc |-> "decoded", length |-> codec.length, prefix |-> codec.prefix,
                 decoded |-> decodeLengthOf(codec.prefix)]
    /\ codecFrame

CodecNext == ChooseLength \/ EncodeLength \/ DecodeLength

SpecCodec == Init /\ [][CodecNext]_vars

-----------------------------------------------------------------------------
(* SpecParse: sendCommand's parsing of one received sentence.              *)

\* the most words after the reply type
MaxWords == 2

W_retabc == <<61,114,101,116,61,97,98,99>>               \* "=ret=abc"
W_nameab == <<61,110,97,109,101,61,97,61,98>>            \* "=name=a=b"
W_retz == <<61,114,101,116,61,122>>                      \* "=ret=z"
W_flag == <<61,102>>                                     \* "=f"
W_eq == <<61>>                                           \* "="
W_eqeqx == <<61,61,120>>                                 \* "==x"
W_plain == <<102,61>>                                    \* "f="
W_proto == ProtoKey                                      \* "__proto__"
W_protox == ProtoKey \o <<61,120>>                       \* "__proto__=x"

AttributeWords ==
    {W_retabc, W_nameab, W_retz, W_flag, W_eq, W_eqeqx, W_plain, W_proto, W_protox}

\* the sentences a peer may send: "!re" and up to MaxWords words
RECURSIVE WordLists(_)
WordLists(n) ==
    IF n = 0 THEN {<<>>}
    ELSE WordLists(n - 1)
         \cup {Append(ws, w) : ws \in {l \in WordLists(n - 1) : Len(l) = n - 1},
                               w \in AttributeWords}
ReplySentences == {<<S_re>> \o ws : ws \in WordLists(MaxWords)}

\* receiveSentence has returned a sentence
ReceiveReply ==
    /\ codec.pc = "idle"
    /\ \E sentence \in ReplySentences : codec' = [pc |-> "sentence", sentence |-> sentence]
    /\ codecFrame

\* sendCommand makes the reply it yields of the sentence
ParseReply ==
    /\ codec.pc = "sentence"
    /\ codec' = [pc |-> "reply", sentence |-> codec.sentence,
                 reply |-> replyOf(codec.sentence)]
    /\ codecFrame

ParseNext == ReceiveReply \/ ParseReply

SpecParse == Init /\ [][ParseNext]_vars

-----------------------------------------------------------------------------
(* SpecDecode: decodeLength on every first byte.                           *)

FirstBytes == 0..255
\* the bytes that follow the first in the buffer
Followers == {<<1, 2, 3, 4, 5>>, <<255, 254, 253, 252, 251>>}

\* the buffer holds a first byte and the bytes after it
ChoosePrefix ==
    /\ codec.pc = "idle"
    /\ \E firstByte \in FirstBytes, b \in Followers :
            codec' = [pc |-> "buffered", bytes |-> <<firstByte>> \o b]
    /\ codecFrame

\* decodeLength runs on them
DecodePrefix ==
    /\ codec.pc = "buffered"
    /\ codec' = [pc |-> "read", bytes |-> codec.bytes, decoded |-> decodeLengthOf(codec.bytes)]
    /\ codecFrame

DecodeNext == ChoosePrefix \/ DecodePrefix

SpecDecode == Init /\ [][DecodeNext]_vars

-----------------------------------------------------------------------------
(* SpecQueues: RouterAPI.setQueue, one call or two at a time, each query  *)
(* of a call being one exchange that the router carries out at one instant *)
(* and that does not fail.                                                 *)

\* the most queues the router has for the target before the calls
MaxExisting == 2

\* the target the calls are for, and another
Target == "10.0.0.5/32"
OtherTarget == "10.0.0.6/32"
\* the speed a call sets, in megabits, and the max-limit it writes
SpeedOf(p) == p
MaxLimit(speed) == <<speed, speed>>
Unlimited == <<0, 0>>

\* the router carries out /queue/simple/print ?target=, set, remove and add
routerPrint(r, target) == SelectSeq(r.queues, LAMBDA q : q.target = target)
routerSet(r, id, limit) ==
    [r EXCEPT !.queues = [i \in 1..Len(@) |->
                            IF @[i].id = id THEN [@[i] EXCEPT !.limit = limit] ELSE @[i]]]
routerRemove(r, id) == [r EXCEPT !.queues = SelectSeq(@, LAMBDA q : q.id # id)]
routerAdd(r, target, limit) ==
    [r EXCEPT !.queues = Append(@, [id |-> r.nextId, target |-> target, limit |-> limit]),
              !.nextId = @ + 1]

\* the queues of the router before the calls: up to MaxExisting for the
\* target, after one for another target or none
RECURSIVE WithQueues(_, _, _)
WithQueues(r, target, n) ==
    IF n = 0 THEN r ELSE WithQueues(routerAdd(r, target, Unlimited), target, n - 1)
Configure ==
    /\ ~router.configured
    /\ \E others \in 0..1, n \in 0..MaxExisting :
        LET r == WithQueues(WithQueues(RouterInit, OtherTarget, others), Target, n)
        IN router' = [r EXCEPT !.configured = TRUE, !.initial = r.queues]
    /\ UNCHANGED <<buffer, driverVars, sessionVars, codec, api>>

\* a setQueue that edits whenever it finds a queue
setQueueEditsAny(size) == IF size >= 1 THEN "edit" ELSE "add"

\* setQueue after its getQueues: edit, remove and add, or add
setQueueBranch(size) ==
    IF size = 1 THEN "edit" ELSE IF size > 1 THEN "remove" ELSE "add"

apiFrame == UNCHANGED <<buffer, driverVars, sessionVars, codec>>

\* setQueue(nas, target, speed): getQueues, and the branch taken
SetQueue(p) ==
    /\ router.configured /\ api[p].pc = "idle"
    /\ LET queues == routerPrint(router, Target)
       IN api' = [api EXCEPT ![p] = [pc |-> setQueueBranch(Len(queues)),
                                     queues |-> queues, todo |-> <<>>]]
    /\ UNCHANGED router
    /\ apiFrame

\* editQueuesSpeed and removeQueues: their getQueues
GetQueuesAgain(p) ==
    /\ api[p].pc \in {"edit", "remove"}
    /\ LET queues == routerPrint(router, Target)
       IN api' = [api EXCEPT ![p] =
                    [pc |-> IF queues # <<>> THEN @.pc \o "Each"
                            ELSE IF @.pc = "edit" THEN "done" ELSE "add",
                     queues |-> @.queues, todo |-> queues]]
    /\ UNCHANGED router
    /\ apiFrame

\* editQueuesSpeed: one turn of its loop, the query /queue/simple/set
EditQueue(p) ==
    /\ api[p].pc = "editEach"
    /\ router' = routerSet(router, Head(api[p].todo).id, MaxLimit(SpeedOf(p)))
    /\ api' = [api EXCEPT ![p].todo = Tail(@),
                          ![p].pc = IF Len(api[p].todo) = 1 THEN "done" ELSE @]
    /\ apiFrame

\* removeQueues: one turn of its loop, the query /queue/simple/remove
RemoveQueue(p) ==
    /\ api[p].pc = "removeEach"
    /\ router' = routerRemove(router, Head(api[p].todo).id)
    /\ api' = [api EXCEPT ![p].todo = Tail(@),
                          ![p].pc = IF Len(api[p].todo) = 1 THEN "add" ELSE @]
    /\ apiFrame

\* addQueue: the query /queue/simple/add
AddQueue(p) ==
    /\ api[p].pc = "add"
    /\ router' = routerAdd(router, Target, MaxLimit(SpeedOf(p)))
    /\ api' = [api EXCEPT ![p].pc = "done"]
    /\ apiFrame

QueuesNext ==
    \/ Configure
    \/ \E p \in SetQueueCalls :
        SetQueue(p) \/ GetQueuesAgain(p) \/ EditQueue(p) \/ RemoveQueue(p) \/ AddQueue(p)

SpecQueues == Init /\ [][QueuesNext]_vars

-----------------------------------------------------------------------------
(* Claims about the SocketBuffer, checked under SpecBuf.                   *)

Ids == 1..Len(reads)
IsPending(i) == reads[i].status = "pending"
Increasing(ids) == \A k \in 1..(Len(ids) - 1) : ids[k] < ids[k + 1]
NoOvertaking(S) == \A i, j \in S : (i < j /\ ~IsPending(j)) => ~IsPending(i)
Queued(i) == reads[i].size # 0
HeadWaiter == Head(buffer.waiters)

\* C7 as stated: every readExact call, whatever its size, completes in the
\* order of submission: the completion order is the submission order, and no
\* call has completed while an earlier one is still waiting.
C7_FifoEveryRequest == Increasing(completed) /\ NoOvertaking(Ids)

\* C7: the readExact requests of size > 0 (those queued as waiters) are
\* resolved or rejected in the order they were submitted: none of them
\* completes while an earlier one of them is still waiting for bytes, even
\* when it is smaller and already satisfiable; readExact(0) alone completes
\* at once, ahead of the waiters.
C7_FifoQueuedRequests ==
    /\ Increasing(SelectSeq(completed, Queued))
    /\ NoOvertaking({i \in Ids : Queued(i)})

\* a later, smaller request that the buffered bytes would satisfy waits behind
\* an earlier, larger one
C7_Witness ==
    \E i, j \in Ids :
        /\ i < j /\ IsPending(i) /\ IsPending(j)
        /\ 0 < reads[j].size /\ reads[j].size < reads[i].size
        /\ reads[j].size <= buffer.totalLength

\* the bytes consumed by the requests resolved before the k-th completion
RECURSIVE ConsumedBefore(_)
ConsumedBefore(k) ==
    IF k <= 1 THEN 0
    ELSE ConsumedBefore(k - 1)
         + (IF reads[completed[k - 1]].status = "resolved"
                THEN reads[completed[k - 1]].size ELSE 0)

\* C8: a readExact(n) that resolves returns exactly the next n bytes not yet
\* consumed of the concatenation of the fed chunks, whatever the chunking,
\* and the oldest waiter never stays pending while at least n bytes are
\* buffered.
C8_NextBytesAsSoonAsBuffered ==
    /\ \A k \in 1..Len(completed) :
        LET r == reads[completed[k]]
        IN r.status = "resolved" =>
            /\ Len(r.data) = r.size
            /\ ConsumedBefore(k) + r.size <= Len(fedBytes)
            /\ r.data = SubSeq(fedBytes, ConsumedBefore(k) + 1, ConsumedBefore(k) + r.size)
    /\ buffer.waiters # <<>> => buffer.totalLength < HeadWaiter.size

\* C9: an end() called while the oldest pending readExact(n) needs more bytes
\* than are buffered rejects that request with the connection-closed error.
C9_EndRejectsOldest ==
    [][(End /\ buffer.waiters # <<>> /\ buffer.totalLength < HeadWaiter.size)
        => /\ reads'[HeadWaiter.id].status = "rejected"
           /\ reads'[HeadWaiter.id].err = ErrClosed
           /\ \A k \in 1..Len(buffer'.waiters) : buffer'.waiters[k].id # HeadWaiter.id]_vars

\* end() has rejected a request that needed more bytes than were ever fed
C9_Witness ==
    \E i \in Ids :
        /\ reads[i].status = "rejected" /\ reads[i].err = ErrClosed
        /\ reads[i].size > Len(fedBytes)
        /\ buffer.closed

\* C10: one end() rejects every pending request that the buffered bytes
\* cannot satisfy: none of them is left waiting once the stream has ended.
C10_EndRejectsEveryStarved ==
    [][End => \A k \in 1..Len(buffer.waiters) :
                buffer.waiters[k].size > buffer.totalLength
                    => reads'[buffer.waiters[k].id].status = "rejected"]_vars

-----------------------------------------------------------------------------
(* Claims about the session, checked under Spec.                           *)

CmdIds == 1..Len(cmds)
YieldsOf(id) == SelectSeq(yields, LAMBDA y : y.gen = id)
IsTrap(words) == words # <<>> /\ words[1] = S_trap
HasChallenge(words) == Len(words) > 1 /\ S_ret \in DOMAIN replyOf(words).attributes

\* the number the peer gives the command of exchange id: empty sentences do
\* not count
PeerNumber(id) == 1 + Cardinality({i \in 1..(id - 1) : cmds[i].words # <<>>})

\* the sentences the client has received so far are the first Received of peerSent
Received == 1..Len(rxLog)
FramingHolds == \A i \in Received : i <= Len(peerSent) /\ rxLog[i] = peerSent[i].words

\* the non-empty sentences the peer has sent in answer to exchange id, as the
\* replies they should be yielded as
AnswerTo(id) ==
    IF cmds[id].words = <<>> THEN <<>>
    ELSE LET idx == SelectSeq([i \in 1..Len(peerSent) |-> i],
                              LAMBDA i : peerSent[i].cmd = PeerNumber(id)
                                         /\ peerSent[i].words # <<>>)
         IN [j \in 1..Len(idx) |->
                [gen |-> id, rx |-> idx[j], reply |-> replyOf(peerSent[idx[j]].words)]]

\* C1: the replies one sendCommand exchange yields are the non-empty
\* sentences the peer sent in answer to it, in order, none dropped, none
\* duplicated, none of another exchange: a prefix of them while the exchange
\* runs, all of them up to the "!done" or "!empty" once it has completed.
C1_YieldsAreThePeersSentences ==
    /\ FramingHolds
    /\ \A id \in CmdIds :
        LET y == YieldsOf(id)
            a == AnswerTo(id)
        IN /\ Len(y) <= Len(a)
           /\ y = SubSeq(a, 1, Len(y))
           /\ cmds[id].status = "done" => y = a

LastYieldEnds(id) ==
    LET y == YieldsOf(id)
    IN y # <<>> /\ EndsAnswer(<<y[Len(y)].reply.type>>)
EndYielded(id) == \E j \in 1..Len(YieldsOf(id)) : EndsAnswer(<<YieldsOf(id)[j].reply.type>>)

\* what C2 says of every exchange but its completion
C2_Rest ==
    /\ \A id \in CmdIds :
        \* nothing is yielded after a "!done" or "!empty"
        /\ \A j \in 1..(Len(YieldsOf(id)) - 1) : ~EndsAnswer(<<YieldsOf(id)[j].reply.type>>)
        \* and the exchange does not go on after it
        /\ EndYielded(id) =>
            \/ cmds[id].status \in {"done", "abandoned", "raised"}
            \/ \E k \in 1..Len(gens) : gens[k].id = id /\ gens[k].pc \in {"yield", "resume"}
    \* no readExact is issued for a command after its "!done" or "!empty"
    /\ \A k \in 1..Len(gens) :
        gens[k].pc \in {"len", "ext", "data"} => ~EndYielded(gens[k].id)
    \* an empty sentence is never yielded
    /\ \A j \in 1..Len(yields) : rxLog[yields[j].rx] # <<>>

\* C2 as stated: every sendCommand exchange that has completed has yielded a
\* "!done" or "!empty" reply as its last.
C2_EveryExchangeEndsOnLastReply ==
    /\ C2_Rest
    /\ \A id \in CmdIds : cmds[id].status = "done" => LastYieldEnds(id)

\* C2: the sendCommand exchange of a command of at least one word completes
\* exactly when a "!done" or "!empty" reply has been yielded: no readExact is
\* issued for it afterwards, no earlier sentence ends it, and empty sentences
\* are skipped without being yielded.  (With no word at all sendCommand
\* returns after the terminator, yielding nothing.)
C2_ExchangeEndsOnLastReply ==
    /\ C2_Rest
    /\ \A id \in CmdIds :
        (cmds[id].status = "done" /\ cmds[id].words # <<>>) => LastYieldEnds(id)

\* an exchange has completed after two "!re" replies and a "!done"
C2_Witness ==
    \E id \in CmdIds :
        /\ cmds[id].status = "done"
        /\ Len(YieldsOf(id)) = 3
        /\ YieldsOf(id)[1].reply.type = S_re
        /\ YieldsOf(id)[2].reply.type = S_re
        /\ YieldsOf(id)[3].reply.type = S_done

\* the first login exchange has yielded a reply with the challenge
Challenged ==
    \E j \in 1..Len(yields) :
        /\ yields[j].gen = 1 /\ cmds[1].login
        /\ S_ret \in DOMAIN yields[j].reply.attributes
SecondByLogin == Len(cmds) >= 2 /\ cmds[2].login
SecondReceived == {i \in Received : peerSent[i].cmd = 2}

\* C3: after a challenge login returns true only once the second /login
\* command, with the response, is on the wire and the last reply of the
\* peer's answer to it has been received with no "!trap" in that answer; with
\* a "!trap" in that answer login returns false.
C3_TrueOnlyAfterSecondExchange ==
    /\ (login.result = "true" /\ Challenged) =>
        /\ SecondByLogin
        /\ \E j \in 1..Len(yields) :
            /\ yields[j].gen = 1 /\ S_ret \in DOMAIN yields[j].reply.attributes
            /\ cmds[2].words = responseCommand(yields[j].reply.attributes[S_ret])
        /\ LET sent == sentenceBytes(cmds[1].words) \o sentenceBytes(cmds[2].words)
           IN Len(wire) >= Len(sent) /\ SubSeq(wire, 1, Len(sent)) = sent
        /\ \E i \in SecondReceived : EndsAnswer(peerSent[i].words)
        /\ \A i \in SecondReceived : ~IsTrap(peerSent[i].words)
    /\ (login.result \in {"true", "false"} /\ SecondByLogin
            /\ \E i \in SecondReceived : IsTrap(peerSent[i].words))
        => login.result = "false"

\* login has returned true after a challenge and a second exchange
C3_Witness == login.result = "true" /\ Challenged /\ Len(cmds) = 2

TrapYielded(id) == \E j \in 1..Len(YieldsOf(id)) : YieldsOf(id)[j].reply.type = S_trap
TrapInLogin == \E id \in CmdIds : cmds[id].login /\ TrapYielded(id)

\* C4: once a "!trap" reply has been received in a login exchange, login
\* returns false as its next step and never raises or returns true; login
\* returns true only if no login exchange received a "!trap".
C4_TrapMakesLoginFalse ==
    /\ TrapInLogin =>
        \/ login.result = "false"
        \/ /\ login.active /\ login.result = "none" /\ gens # <<>>
           /\ gens[Len(gens)].pc = "yield" /\ gens[Len(gens)].reply.type = S_trap
    /\ login.result = "true" => ~TrapInLogin

\* login has returned false on a "!trap" of its second exchange
C4_Witness ==
    /\ login.result = "false"
    /\ \E id \in CmdIds : id >= 2 /\ cmds[id].login /\ TrapYielded(id)

ReceivedEnds == Len(SelectSeq(rxLog, EndsAnswer))

\* C5: while a command sentence is being written, the last reply of every
\* earlier command has been received.
C5_NoCommandBeforeLastReply ==
    \A k \in 1..Len(gens) :
        gens[k].pc = "send" => ReceivedEnds >= PeerNumber(gens[k].id) - 1

\* C6: a socket error emitted while a login or sendCommand exchange waits for
\* reply bytes rejects the pending read with that error, and the operation
\* ends by raising that error: the exchange does not complete, login returns
\* neither true nor false.
C6_ErrorInFlightIsRaised ==
    errInFlight # Null =>
        \/ /\ rd.status = "rejected" /\ rd.err = errInFlight
           /\ gens # <<>> /\ cmds[gens[Len(gens)].id].status = "running"
        \/ /\ caller.pc = "failed" /\ caller.err = errInFlight
           /\ gens = <<>>
           /\ \E id \in CmdIds : cmds[id].status = "raised"
           /\ \A id \in CmdIds : cmds[id].status # "running"
           /\ (\E id \in CmdIds : cmds[id].login /\ cmds[id].status = "raised")
                => login.result = "raised" /\ login.err = errInFlight

\* a socket error during login's second exchange has been raised to the caller
C6_Witness ==
    /\ errInFlight # Null /\ caller.pc = "failed" /\ caller.err = errInFlight
    /\ login.result = "raised"
    /\ Len(cmds) = 2 /\ cmds[2].status = "raised"

-----------------------------------------------------------------------------
(* Further claims about the SocketBuffer, checked under SpecBuf.           *)

RejectedWith(r, err) == r.status = "rejected" /\ r.err = err
NewlySettled(i) == i > Len(reads) \/ reads[i].status = "pending"

\* what C11 says of fail(err) itself and of the requests it finds pending
C11_FailRejectsPending ==
    Fail => /\ buffer'.error \in SockErrors
            /\ buffer'.waiters = <<>>
            /\ \A i \in Ids : IsPending(i) => RejectedWith(reads'[i], buffer'.error)

\* C11 as stated: fail(err) rejects every pending readExact with err, and
\* every readExact made afterwards, of any size, is rejected with err.
C11_NoReadAfterFail ==
    [][/\ C11_FailRejectsPending
       /\ (ReadExact /\ buffer.error # Null)
            => RejectedWith(reads'[Len(reads')], buffer.error)]_vars

\* C11: fail(err) rejects every pending readExact with err, and every
\* readExact of at least one byte made afterwards is rejected with err,
\* whatever bytes are buffered: after fail no read returns a byte.
\* (readExact(0) is not queued and resolves with no bytes.)
C11_NoBytesReadAfterFail ==
    [][/\ C11_FailRejectsPending
       /\ (ReadExact /\ buffer.error # Null /\ reads'[Len(reads')].size > 0)
            => RejectedWith(reads'[Len(reads')], buffer.error)
       /\ buffer.error # Null =>
            \A i \in 1..Len(reads') :
                (NewlySettled(i) /\ reads'[i].status = "resolved") => reads'[i].data = <<>>]_vars

\* after fail a readExact that the buffered bytes could serve has been rejected
C11_Witness ==
    /\ buffer.error # Null /\ reads # <<>>
    /\ LET r == reads[Len(reads)]
       IN /\ RejectedWith(r, buffer.error)
          /\ r.size > 0 /\ r.size <= buffer.totalLength
          /\ completed # <<>> /\ completed[Len(completed)] = Len(reads)

-----------------------------------------------------------------------------
(* Claims about the codec, checked under SpecCodec.                        *)

\* C12: decodeLength applied to the bytes of encodeLength(L) returns L, for
\* every length L from 0 to 2^32 - 1, and reads exactly those bytes.
C12_LengthRoundTrip ==
    codec.pc = "decoded" =>
        /\ codec.decoded.err = Null
        /\ codec.decoded.rest = <<>>
        /\ codec.decoded.length = codec.length

\* the four bytes of a length, the most significant first
BigEndian(n) == <<n.hi \div 256, n.hi % 256, n.lo \div 256, n.lo % 256>>
\* the prefix the length table gives a length: for a length below the limit
\* of its range, OR with the tag is the sum with the tag
TablePrefix(n) ==
    LET b == BigEndian(n)
    IN IF n.hi = 0 /\ n.lo < 128 THEN <<n.lo>>
       ELSE IF n.hi = 0 /\ n.lo < 16384 THEN <<128 + b[3], b[4]>>
       ELSE IF n.hi < 32 THEN <<192 + b[2], b[3], b[4]>>
       ELSE IF n.hi < 4096 THEN <<224 + b[1], b[2], b[3], b[4]>>
       ELSE <<240>> \o b

\* C22: encodeLength(L) is the prefix of the length table: one byte for
\* L < 0x80, the two bytes of L OR 0x8000 for L < 0x4000, the three bytes of
\* L OR 0xC00000 for L < 0x200000, the four bytes of L OR 0xE0000000 for
\* L < 0x10000000, and from there 0xF0 and the four bytes of L, the most
\* significant first.
C22_PrefixIsTheTableEntry ==
    codec.pc \in {"prefix", "decoded"} => codec.prefix = TablePrefix(codec.length)

\* the largest length, 0xFFFFFFFF, has been encoded in five bytes
C22_Witness ==
    /\ codec.pc = "prefix" /\ codec.length = Halves(65535, 65535)
    /\ codec.prefix = <<240, 255, 255, 255, 255>>

-----------------------------------------------------------------------------
(* Claims about the sentence framing, checked under SpecEcho.              *)

IsPrefixOf(p, q) == Len(p) <= Len(q) /\ p = SubSeq(q, 1, Len(p))

\* C13: the bytes sendSentence writes for a command of non-empty words, fed
\* to the SocketBuffer in any chunking and read by receiveSentence, give the
\* words of the command in order and nothing else: the words read so far are
\* the first words of the command, the sentence returned is the command, and
\* once every byte has come back the sentence has been returned, the empty
\* word ending it taken up and left out.
C13_SentenceRoundTrip ==
    /\ \A i \in 1..Len(rxLog) : i = 1 /\ rxLog[i] = cmds[1].words
    /\ (gens # <<>> /\ rxLog = <<>>) => IsPrefixOf(gens[1].sentence, cmds[1].words)
    /\ (gens # <<>> /\ rxLog # <<>>) => gens[1].sentence = <<>>
    /\ (peerSent # <<>> /\ net = <<>> /\ ~Runnable) =>
            rxLog = <<cmds[1].words>> /\ buffer.totalLength = 0

\* a command of three words, one of them of multi-byte characters, has come
\* back whole and every byte has been taken up
C13_Witness ==
    /\ rxLog = <<<<W_bc, W_wide, W_a>>>>
    /\ peerSent # <<>> /\ net = <<>> /\ buffer.totalLength = 0

-----------------------------------------------------------------------------
(* Claims about calls in any state, checked under SpecCalls.               *)

\* the bytes written to the socket by the sendCommand call id
BytesWrittenBy(id) ==
    (IF id = Len(cmds) THEN Len(wire) ELSE cmds[id + 1].wireAt) - cmds[id].wireAt

\* C14: a sendCommand issued by a caller while the session is not Ready (no
\* login has returned true, or close() has been called, or an operation has
\* raised) writes no byte of a command sentence and yields no reply.
C14_CommandOnlyWhenReady ==
    \A id \in CmdIds :
        (~cmds[id].login /\ ~cmds[id].ready) =>
            BytesWrittenBy(id) = 0 /\ YieldsOf(id) = <<>>

\* what C15 says of one close() call: it does not raise, it leaves the
\* writable side of the socket ended, and a second call changes nothing
CloseIsSafe ==
    CallClose =>
        /\ caller'.pc = caller.pc /\ caller'.err = caller.err
        /\ sock' # "open"
        /\ caller.closes >= 1 => sock' = sock

\* C15: close() never raises, in whatever state it is called; called again it
\* leaves the session and the socket as the first call left them; and once it
\* has been called the socket is shut down for writing and for reading: no
\* byte is written and no "data" event feeds the buffer any more.
C15_CloseShutsBothWays ==
    [][/\ CloseIsSafe
       /\ caller.closes >= 1 => (wire' = wire /\ ~SockData)]_vars

\* decodeLength is given a first byte that starts no length prefix
MeetsBadPrefix ==
    /\ ReadDone /\ gens # <<>> /\ gens[Len(gens)].pc = "len"
    /\ decodeLengthMore(rd.data[1]) = -1

\* what C16 says of the exchange that meets the framing error: it raises
\* "invalid length prefix" to the caller and every exchange in flight ends
FramingErrorIsRaised ==
    MeetsBadPrefix =>
        /\ caller'.pc = "failed" /\ caller'.err = ErrPrefix
        /\ gens' = <<>>
        /\ \A id \in CmdIds : cmds'[id].status # "running"

\* C16: a framing error met during an exchange is raised to the caller in
\* flight and aborts the session: from then on no command is written to the
\* socket and no reply is yielded on that session.
C16_FramingErrorAbortsSession ==
    [][/\ FramingErrorIsRaised
       /\ caller.err = ErrPrefix => (wire' = wire /\ yields' = yields)]_vars

\* "=message" and "x", the key and the value of the attribute of the peer's
\* "!trap" sentence
K_message == <<61, 109, 101, 115, 115, 97, 103, 101>>
V_message == <<120>>

\* the running exchange is a caller's and its current reply is a "!trap"
AtTrap == gens # <<>> /\ ~login.active /\ gens[Len(gens)].reply.type = S_trap

\* C17: a "!trap" reply received in a caller's sendCommand exchange is
\* yielded like any reply, with the attributes of its sentence; the loop body
\* and the generator go on after it: nothing is raised, the exchange keeps
\* running and reads on, the socket stays as it was; the exchange ends on a
\* later "!done" or "!empty", and the caller is then free to call again.
C17_TrapIsAnOrdinaryReply ==
    [][/\ \A j \in 1..Len(yields') :
            (~cmds'[yields'[j].gen].login /\ yields'[j].reply.type = S_trap) =>
                /\ rxLog'[yields'[j].rx][1] = S_trap
                /\ rxLog'[yields'[j].rx] = <<S_trap, S_message>> =>
                        yields'[j].reply.attributes = (K_message :> V_message)
                /\ rxLog'[yields'[j].rx] = <<S_trap>> =>
                        yields'[j].reply.attributes = NoAttributes
       /\ (QueryBody /\ AtTrap) =>
            /\ caller'.pc = "inCommand" /\ caller'.err = caller.err
            /\ gens'[Len(gens')].pc = "resume"
            /\ sock' = sock
       /\ (GenResume /\ AtTrap) =>
            /\ caller'.pc = "inCommand" /\ caller'.err = caller.err
            /\ Len(gens') = Len(gens) /\ gens'[Len(gens')].pc = "len"
            /\ cmds'[gens[Len(gens)].id].status = "running"
            /\ rd'.status \in {"pending", "resolved"}
            /\ sock' = sock
       /\ \A id \in 1..Len(cmds') :
            (~cmds'[id].login /\ cmds'[id].status = "done" /\ id = Len(cmds')
                /\ \E j \in 1..Len(yields') :
                        yields'[j].gen = id /\ yields'[j].reply.type = S_trap)
                => caller'.pc = "ready"]_vars

\* after a login that returned true an exchange has yielded "!trap", then
\* "!done", and the caller has sent another command on the same session
C17_Witness ==
    /\ Len(cmds) = 3 /\ cmds[2].ready /\ ~cmds[2].login /\ cmds[2].status = "done"
    /\ TrapYielded(2) /\ LastYieldEnds(2)
    /\ YieldsOf(2)[1].reply.attributes = (K_message :> V_message)
    /\ BytesWrittenBy(3) > 0

-----------------------------------------------------------------------------
(* Further claims about the session, checked under Spec.                   *)

\* every byte the peer has sent, and those of them a "data" event has
\* delivered to the buffer
RECURSIVE PeerBytes(_)
PeerBytes(k) ==
    IF k = 0 THEN <<>> ELSE PeerBytes(k - 1) \o sentenceBytes(peerSent[k].words)
DeliveredBytes ==
    LET all == PeerBytes(Len(peerSent)) IN SubSeq(all, 1, Len(all) - Len(net))

\* the client has run as far as it can and waits for bytes
WaitsForBytes == gens # <<>> /\ rd.status = "pending"

\* C18: a reply is yielded as soon as the empty word ending its sentence has
\* been received, whatever comes later: whenever the client waits for bytes,
\* every sentence whose bytes have all been delivered has been received, and
\* every one of them that is not empty has been yielded.
C18_RepliesAreYieldedAsTheyArrive ==
    WaitsForBytes =>
        /\ rxLog = wireSentences(DeliveredBytes, <<>>)
        /\ Len(yields) = Len(SelectSeq(rxLog, LAMBDA sn : sn # <<>>))
        /\ \A j \in 1..Len(yields) : yields[j].reply.type = rxLog[yields[j].rx][1]

\* the caller has acted on a first "!re" reply of an exchange when the peer
\* has sent nothing after it
C18_Witness ==
    /\ WaitsForBytes /\ ~login.active
    /\ Len(peerSent) = 1 /\ peerSent[1].words = <<S_re, S_id>>
    /\ Len(yields) = 1 /\ caller.result # {}
    /\ cmds[Len(cmds)].status = "running"

-----------------------------------------------------------------------------
(* Claims about the parsing of a reply, checked under SpecParse.           *)

\* the positions, counted from 0, of the '=' of a word at position 1 or later
EqualsAfterFirst(word) == {i \in 1..(Len(word) - 1) : word[i + 1] = EqualsSign[1]}
FirstEquals(word) ==
    CHOOSE i \in EqualsAfterFirst(word) : \A j \in EqualsAfterFirst(word) : i <= j
\* the key and the value the word stands for
KeyOf(word) ==
    IF EqualsAfterFirst(word) = {} THEN word ELSE SubSeq(word, 1, FirstEquals(word))
ValueOf(word) ==
    IF EqualsAfterFirst(word) = {} THEN <<>>
    ELSE SubSeq(word, FirstEquals(word) + 2, Len(word))
\* the word at position i is the last of the sentence with its key
LastOfKey(sentence, i) ==
    \A j \in (i + 1)..Len(sentence) : KeyOf(sentence[j]) # KeyOf(sentence[i])

\* C19: every word after the first of a received sentence gives one
\* attribute: its key is the part of the word before the first '=' at
\* position 1 or later, its value all that follows that '=', and a word
\* without such an '=' is the key of an empty value; the attributes of the
\* reply are those of the words and no others, the last word of a key giving
\* its value.
C19_EveryWordIsOneAttribute ==
    codec.pc = "reply" =>
        LET sentence == codec.sentence
            attributes == codec.reply.attributes
        IN /\ codec.reply.type = sentence[1]
           /\ DOMAIN attributes = {KeyOf(sentence[i]) : i \in 2..Len(sentence)}
           /\ \A i \in 2..Len(sentence) :
                LastOfKey(sentence, i) =>
                    /\ KeyOf(sentence[i]) \in DOMAIN attributes
                    /\ attributes[KeyOf(sentence[i])] = ValueOf(sentence[i])

-----------------------------------------------------------------------------
(* Claims about getConnection, checked under Spec.                         *)

\* C28: getConnection returns the client only when login has returned true;
\* when login has returned false it has ended the socket and thrown "Failed
\* to login", and no client is returned; nor is one when login has thrown.
C28_ClientOnlyAfterLogin ==
    /\ caller.conn = "returned" => login.result = "true"
    /\ login.result = "false" =>
            /\ caller.conn = "thrown" /\ caller.err = ErrLogin
            /\ sock # "open"
    /\ login.result = "raised" => caller.conn = "thrown" /\ caller.err = login.err

\* login has returned false on an open socket, and getConnection has ended
\* the socket and thrown
C28_Witness ==
    /\ login.result = "false" /\ caller.conn = "thrown" /\ caller.err = ErrLogin
    /\ sock = "halfClosed"

-----------------------------------------------------------------------------
(* Claims about the login response, checked under Spec.                    *)

\* the commands login has issued after its first
ResponseCommands == {id \in CmdIds : id >= 2 /\ cmds[id].login}
\* what the command has written so far
WrittenBy(id) == SubSeq(wire, cmds[id].wireAt + 1, cmds[id].wireAt + BytesWrittenBy(id))
\* the command is past its sendSentence
Sent(id) ==
    cmds[id].status # "running" \/ \E k \in 1..Len(gens) : gens[k].id = id /\ gens[k].pc # "send"
Contains(word, part) ==
    \E k \in 0..(Len(word) - Len(part)) : SubSeq(word, k + 1, k + Len(part)) = part

\* the challenge "ab" is the byte 0xab, the password the bytes 0xc3 0xa9
ChallengeAB == <<97,98>>
DigestInput == <<0>> \o <<195,169>> \o <<171>>
ResponseWords == <<S_login, S_name \o <<117>>, S_response00 \o md5Hex(DigestInput)>>
ResponseBytes ==
    <<6>> \o S_login \o <<7>> \o S_name \o <<117>> \o <<20>> \o S_response00
    \o md5Hex(DigestInput) \o <<0>>

\* C20: the /login command that answers a challenge has the words /login,
\* =name=<username> and =response=00<hex>, <hex> being the hex digest of the
\* byte 0x00, the UTF-8 bytes of the password and the bytes the hex challenge
\* stands for, in this order; these words are what it writes, in this order,
\* and the password is in none of them.
C20_ResponseToChallenge ==
    \A id \in ResponseCommands :
        /\ \E j \in 1..Len(yields) :
            /\ yields[j].gen = 1 /\ S_ret \in DOMAIN yields[j].reply.attributes
            /\ yields[j].reply.attributes[S_ret] = ChallengeAB
        /\ cmds[id].words = ResponseWords
        /\ IsPrefixOf(WrittenBy(id), ResponseBytes)
        /\ (Sent(id) /\ cmds[id].status # "raised") => WrittenBy(id) = ResponseBytes
        /\ \A k \in 1..Len(cmds[id].words) :
            /\ ~Contains(cmds[id].words[k], Password)
            /\ ~Contains(cmds[id].words[k], S_password)

\* login has written the whole of its response to a challenge
C20_Witness ==
    \E id \in ResponseCommands : Sent(id) /\ WrittenBy(id) = ResponseBytes

-----------------------------------------------------------------------------
(* Claims about decodeLength, checked under SpecDecode.                    *)

\* the number of bytes after the first that the tag bits of a first byte
\* announce: 0, 10, 110, 1110, 11110
TagFollowers(firstByte) ==
    IF firstByte < 128 THEN 0
    ELSE IF firstByte < 192 THEN 1
    ELSE IF firstByte < 224 THEN 2
    ELSE IF firstByte < 240 THEN 3
    ELSE 4
TopFiveBitsSet(firstByte) == firstByte \div 8 = 31
BytesRead == Len(codec.bytes) - Len(codec.decoded.rest)

\* C21: decodeLength reads the first byte and then 0, 1, 2, 3 or 4 bytes more
\* as the tag bits of the first byte say; it throws "invalid length prefix"
\* exactly when the top five bits of the first byte are all set (0xf8 to
\* 0xff), and has then read the first byte alone.
C21_TagBitsGiveTheBytesRead ==
    codec.pc = "read" =>
        LET firstByte == codec.bytes[1]
        IN /\ (codec.decoded.err = ErrPrefix) <=> TopFiveBitsSet(firstByte)
           /\ TopFiveBitsSet(firstByte) => BytesRead = 1
           /\ ~TopFiveBitsSet(firstByte) =>
                /\ codec.decoded.err = Null
                /\ BytesRead = 1 + TagFollowers(firstByte)

\* decodeLength has thrown on a first byte 0xf8 and left what follows unread
C21_Witness ==
    /\ codec.pc = "read" /\ codec.bytes[1] = BadPrefix
    /\ codec.decoded.err = ErrPrefix /\ codec.decoded.rest \in Followers

-----------------------------------------------------------------------------
(* Further claims about the SocketBuffer, checked under SpecBuf.           *)

\* the step is a call readExact(0)
ReadsZero == Len(reads') = Len(reads) + 1 /\ reads'[Len(reads')].size = 0

\* C23: readExact(0) returns the empty result at once in every state of the
\* SocketBuffer (bytes buffered or none, requests waiting, ended, failed) and
\* leaves the chunk queue, the counter of bytes and the queue of waiters as
\* they were; no other request is settled by it.
C23_ReadExactZeroChangesNothing ==
    [][ReadsZero =>
            /\ buffer' = buffer
            /\ reads'[Len(reads')] = [size |-> 0, status |-> "resolved",
                                      data |-> <<>>, err |-> Null]
            /\ \A i \in 1..Len(reads) : reads'[i] = reads[i]
            /\ completed' = Append(completed, Len(reads'))]_vars

\* readExact(0) has returned the empty result after fail has rejected a
\* waiter, bytes being buffered
C23_Witness ==
    /\ buffer.error # Null /\ buffer.totalLength > 0
    /\ Len(completed) >= 2
    /\ LET z == completed[Len(completed)]
           w == completed[Len(completed) - 1]
       IN /\ reads[z].size = 0 /\ reads[z].status = "resolved"
          /\ reads[w].status = "rejected" /\ reads[w].err \in SockErrors

\* the number of bytes in the chunks of a queue
RECURSIVE QueuedBytes(_)
QueuedBytes(queue) ==
    IF queue = <<>> THEN 0 ELSE Len(Head(queue)) + QueuedBytes(Tail(queue))

\* C26: after any sequence of feed, end, fail and readExact calls, chunks
\* that are empty and requests served from several chunks included, the
\* counter totalLength is the sum of the lengths of the chunks in the queue,
\* and is not negative.
C26_TotalLengthIsTheBytesQueued ==
    buffer.totalLength = QueuedBytes(buffer.queue) /\ buffer.totalLength >= 0

\* a request has been served from more than one chunk, the bytes have come
\* in more feed calls than full chunks need, and bytes are left in the queue
C26_Witness ==
    /\ \E i \in Ids : reads[i].status = "resolved" /\ Len(reads[i].data) > MaxChunk
    /\ nFeeds > (Len(fedBytes) + MaxChunk - 1) \div MaxChunk
    /\ buffer.totalLength > 0

\* the step is a call of feed
Feeds == nFeeds' = nFeeds + 1
Ended(b) == b.closed /\ b.error = Null

\* C27: bytes fed before end() can be read after it: once the stream has
\* ended (and not failed) the oldest request waiting is never one that the
\* bytes buffered would serve, a request issued after end() that the bytes
\* buffered serve is resolved with them, a request is rejected for the end of
\* the stream only when fewer bytes than it asks for are left, and a chunk fed
\* after end() or after fail() changes nothing.
C27_BufferedBytesOutliveEnd ==
    [][/\ (Ended(buffer') /\ buffer'.waiters # <<>>) =>
              Head(buffer'.waiters).size > buffer'.totalLength
       /\ \A i \in 1..Len(reads') :
              (reads'[i].status = "rejected" /\ reads'[i].err = ErrClosed
                  /\ (i > Len(reads) \/ reads[i].status = "pending")) =>
                  /\ buffer'.closed
                  /\ buffer'.totalLength < reads'[i].size
       /\ (Feeds /\ (buffer.closed \/ buffer.error # Null)) =>
              buffer' = buffer /\ reads' = reads /\ completed' = completed]_vars

-----------------------------------------------------------------------------
(* Claims about RouterAPI.query, checked under SpecQuery.                  *)

\* the query last started has returned or thrown
QueryFinished == caller.pc \in {"queryDone", "failed", "loginFailed"}
\* the sendCommand calls made on the connection that were not login's
QueryCommandsSent == {id \in CmdIds : ~cmds[id].login}

-----------------------------------------------------------------------------
(* Claims about setQueue, checked under SpecQueues.                        *)

TargetQueues == routerPrint(router, Target)
InitialTargetQueues == SelectSeq(router.initial, LAMBDA q : q.target = Target)
OtherQueues(queues) == SelectSeq(queues, LAMBDA q : q.target # Target)
IdsOf(queues) == {queues[i].id : i \in 1..Len(queues)}
\* call p has completed and no other call has started
CompletedAlone(p) ==
    api[p].pc = "done" /\ \A o \in SetQueueCalls \ {p} : api[o].pc = "idle"

\* C25: a setQueue that has completed with nothing else changing the queues
\* leaves the router with exactly one queue for the target, its max-limit the
\* speed of the call: the queue that was there when there was one, edited in
\* place; a new one when there was none, and when there were several, all of
\* them removed; the queues of other targets are as they were.
C25_SetQueueLeavesOneQueue ==
    \A p \in SetQueueCalls :
        CompletedAlone(p) =>
            /\ Len(TargetQueues) = 1
            /\ TargetQueues[1].limit = MaxLimit(SpeedOf(p))
            /\ Len(InitialTargetQueues) = 1 =>
                    TargetQueues[1].id = InitialTargetQueues[1].id
            /\ Len(InitialTargetQueues) # 1 =>
                    TargetQueues[1].id \notin IdsOf(router.initial)
            /\ OtherQueues(router.queues) = OtherQueues(router.initial)

\* a call has completed alone on a router that had several queues for the
\* target
C25_Witness ==
    /\ CompletedAlone(1) /\ Len(InitialTargetQueues) > 1
    /\ Len(TargetQueues) = 1 /\ TargetQueues[1].limit = MaxLimit(SpeedOf(1))

\* C29: when two setQueue calls for the same target have run at the same
\* time, their queries interleaved in any order, and both have completed,
\* the router has exactly one queue for the target.
C29_OneQueueAfterConcurrentCalls ==
    (\A p \in SetQueueCalls : api[p].pc = "done") => Len(TargetQueues) = 1

====
